---- MODULE Spec2Model ----
(***************************************************************************)
(* Model of lib/host_context/diagnostic.cc: the DecodedDiagnostic value,    *)
(* its stream rendering, and EmitError, which decodes the location of an   *)
(* execution context, builds a diagnostic, hands it to the host's          *)
(* diagnostic handler and returns it.                                      *)
(*                                                                         *)
(* EmitError is modelled statement by statement, one action per line of    *)
(* its body, so that calls made from several threads interleave.           *)
(***************************************************************************)
EXTENDS Integers, Sequences, FiniteSets, TLC

VARIABLES
    ctx,          \* ctx[t]: the ExecutionContext thread t emits on
    pc,           \* pc[t]: the line of EmitError thread t is about to execute
    message,      \* message[t]: the string_view argument of the running call
    decoded_loc,  \* decoded_loc[t]: the local of line 45
    diag,         \* diag[t]: the local of line 46
    host,         \* host[t]: the local of line 48
    callId,       \* callId[t]: identity of the running call (0 when idle)
    ndecode,      \* ndecode[t]: Decode() invocations made by the running call
    calls,        \* history: one record per call ever started
    sink,         \* sink[h]: what host h's diagnostic handler has received
    fault,        \* "none", or how the process died
    value,        \* a DecodedDiagnostic held by a caller
    origin,       \* how value was last produced
    err,          \* the Error value was constructed from
    os            \* the text streamed by the last operator<<

vars == <<ctx, pc, message, decoded_loc, diag, host, callId, ndecode, calls,
          sink, fault, value, origin, err, os>>

emitVars == <<ctx, pc, message, decoded_loc, diag, host, callId, ndecode,
              calls, sink, fault>>

valueVars == <<value, origin, err, os>>

-----------------------------------------------------------------------------
(* Bounds *)

NumThreads == 2

MaxCalls == 2

MaxLine == 10

MaxColumn == 5

Threads == 1..NumThreads

-----------------------------------------------------------------------------
(* Values *)

None == [has |-> FALSE]

Some(v) == [has |-> TRUE, value |-> v]

NoToken == "NoToken"

\* What the location handler resolves each resolvable token to; "tokBad" is a
\* token the handler cannot resolve.
LocationTable ==
    [tokF |-> [filename |-> "f.cc", line |-> 3, column |-> 1]]

Hosts == {"h1", "h2"}

NullHost == "nullptr"

Messages == {"oops", ""}

\* Location::Decode(): nothing to decode without a token, and a token the
\* handler cannot resolve decodes to nothing as well.
Decode(loc) ==
    IF loc = NoToken THEN None
    ELSE IF loc \in DOMAIN LocationTable THEN Some(LocationTable[loc])
    ELSE None

\* DecodedDiagnostic(Optional<DecodedLocation>, string_view)
DecodedDiagnostic(location, msg) == [location |-> location, message |-> msg]

\* A default-constructed local / a frame that does not exist.
NoDiag == [location |-> None, message |-> "<unset>"]

-----------------------------------------------------------------------------
(* Text *)

DigitChars == <<"0", "1", "2", "3", "4", "5", "6", "7", "8", "9">>

\* raw_ostream << unsigned: decimal digits, most significant first.
RECURSIVE WriteUnsigned(_, _)
WriteUnsigned(out, n) ==
    IF n < 10 THEN out \o DigitChars[n + 1]
    ELSE WriteUnsigned(out, n \div 10) \o DigitChars[(n % 10) + 1]

StreamOut_NoSpace(out, d) ==
    LET head == IF d.location.has
                THEN WriteUnsigned(
                         WriteUnsigned(out \o d.location.value.filename \o ":",
                                       d.location.value.line) \o ":",
                         d.location.value.column) \o ":"
                ELSE out \o "UnknownLocation:"
    IN  head \o d.message

\* operator<<(raw_ostream&, const DecodedDiagnostic&)
StreamOut(out, d) ==
    LET head == IF d.location.has
                THEN WriteUnsigned(
                         WriteUnsigned(out \o d.location.value.filename \o ":",
                                       d.location.value.line) \o ":",
                         d.location.value.column) \o ": "
                ELSE out \o "UnknownLocation: "
    IN  head \o d.message

\* The text a diagnostic renders to on a fresh stream.
Format(d) == StreamOut("", d)

-----------------------------------------------------------------------------
(* Errors *)

ErrorValues ==
    {[payload |-> "null", msg |-> ""]}
    \cup {[payload |-> "StringError", msg |-> m] : m \in {"bad thing", "oops", ""}}

\* llvm::operator<<(raw_ostream&, const Error&): the payload's log, or
\* "success" for an Error that holds none.
ErrorText(e) == IF e.payload = "null" THEN "success" ELSE e.msg

\* StrCat(error): the error streamed into an empty string.
StrCat(e) == "" \o ErrorText(e)

-----------------------------------------------------------------------------
(* Execution contexts *)

\* An ExecutionContext exposes location() and host(); both are fixed for the
\* lifetime of the context.
Contexts ==
    {[location |-> NoToken,  host |-> "h1"],
     [location |-> "tokF",   host |-> "h1"],
     [location |-> "tokBad", host |-> "h2"]}

\* Contexts from which no host can be reached.
UnsetContexts ==
    {[location |-> NoToken, host |-> NullHost],
     [location |-> "tokF",  host |-> NullHost]}

\* What dereferencing a null HostContext* can do: the load of the handler
\* through the null pointer traps, or reads a zero page and the empty
\* handler aborts.  Either way the process is gone.
UBOutcomes == {"SIGSEGV", "SIGABRT"}

\* HostContext::EmitError(diag): the handler receives the diagnostic.  The
\* handler serialises its own callers, so a delivery is one atomic append.
HostContext_EmitError(s, h, id, d) ==
    [s EXCEPT ![h] = Append(@, [call |-> id, diag |-> d])]

-----------------------------------------------------------------------------
(* Initial states *)

InitValue ==
    /\ value = DecodedDiagnostic(None, "")
    /\ origin = "none"
    /\ err = [payload |-> "null", msg |-> ""]
    /\ os = ""

InitEmit ==
    /\ pc = [t \in Threads |-> "idle"]
    /\ message = [t \in Threads |-> ""]
    /\ decoded_loc = [t \in Threads |-> None]
    /\ diag = [t \in Threads |-> NoDiag]
    /\ host = [t \in Threads |-> NullHost]
    /\ callId = [t \in Threads |-> 0]
    /\ ndecode = [t \in Threads |-> 0]
    /\ calls = <<>>
    /\ sink = [h \in Hosts |-> <<>>]
    /\ fault = "none"

Init ==
    /\ ctx \in [Threads -> Contexts]
    /\ InitEmit
    /\ InitValue

InitUnset ==
    /\ ctx \in [Threads -> Contexts \cup UnsetContexts]
    /\ InitEmit
    /\ InitValue

-----------------------------------------------------------------------------
(* EmitError(exec_ctx, message), one action per statement *)

\* A thread enters EmitError with its context and a message.
EmitError_Call(t, m) ==
    /\ fault = "none"
    /\ pc[t] = "idle"
    /\ Len(calls) < MaxCalls
    /\ callId' = [callId EXCEPT ![t] = Len(calls) + 1]
    /\ calls' = Append(calls, [thread |-> t, message |-> m, returned |-> FALSE,
                               result |-> NoDiag, decodes |-> 0])
    /\ message' = [message EXCEPT ![t] = m]
    /\ ndecode' = [ndecode EXCEPT ![t] = 0]
    /\ pc' = [pc EXCEPT ![t] = "L45"]
    /\ UNCHANGED <<ctx, decoded_loc, diag, host, sink, fault>>
    /\ UNCHANGED valueVars

\* Variant: the optional is dereferenced, so a location that does not decode
\* ends the process instead of yielding an empty optional.
EmitError_Decode_Throwing(t) ==
    /\ fault = "none"
    /\ pc[t] = "L45"
    /\ IF Decode(ctx[t].location).has
       THEN /\ decoded_loc' = [decoded_loc EXCEPT ![t] = Decode(ctx[t].location)]
            /\ ndecode' = [ndecode EXCEPT ![t] = @ + 1]
            /\ pc' = [pc EXCEPT ![t] = "L46"]
            /\ UNCHANGED fault
       ELSE /\ fault' = "decode failure"
            /\ UNCHANGED <<decoded_loc, ndecode, pc>>
    /\ UNCHANGED <<ctx, message, diag, host, callId, calls, sink>>
    /\ UNCHANGED valueVars

\* Variant: a token decodes once; a handler that has already reported for
\* this context yields nothing the second time.
EmitError_Decode_OneShot(t) ==
    /\ fault = "none"
    /\ pc[t] = "L45"
    /\ decoded_loc' = [decoded_loc EXCEPT ![t] =
                          IF sink[ctx[t].host] = <<>>
                          THEN Decode(ctx[t].location) ELSE None]
    /\ ndecode' = [ndecode EXCEPT ![t] = @ + 1]
    /\ pc' = [pc EXCEPT ![t] = "L46"]
    /\ UNCHANGED <<ctx, message, diag, host, callId, calls, sink, fault>>
    /\ UNCHANGED valueVars

\* auto decoded_loc = exec_ctx.location().Decode();
EmitError_Decode(t) ==
    /\ fault = "none"
    /\ pc[t] = "L45"
    /\ decoded_loc' = [decoded_loc EXCEPT ![t] = Decode(ctx[t].location)]
    /\ ndecode' = [ndecode EXCEPT ![t] = @ + 1]
    /\ pc' = [pc EXCEPT ![t] = "L46"]
    /\ UNCHANGED <<ctx, message, diag, host, callId, calls, sink, fault>>
    /\ UNCHANGED valueVars

\* Variant: the diagnostic is built in a function-local static, one object
\* shared by every thread in the function.
EmitError_Build_Static(t) ==
    /\ fault = "none"
    /\ pc[t] = "L46"
    /\ diag' = [u \in Threads |-> DecodedDiagnostic(decoded_loc[t], message[t])]
    /\ pc' = [pc EXCEPT ![t] = "L48"]
    /\ UNCHANGED <<ctx, message, decoded_loc, host, callId, ndecode, calls,
                   sink, fault>>
    /\ UNCHANGED valueVars

\* Variant: the decoded location is not passed on to the diagnostic.
EmitError_Build_DropLocation(t) ==
    /\ fault = "none"
    /\ pc[t] = "L46"
    /\ diag' = [diag EXCEPT ![t] = DecodedDiagnostic(None, message[t])]
    /\ pc' = [pc EXCEPT ![t] = "L48"]
    /\ UNCHANGED <<ctx, message, decoded_loc, host, callId, ndecode, calls,
                   sink, fault>>
    /\ UNCHANGED valueVars

\* auto diag = DecodedDiagnostic(decoded_loc, message);
EmitError_Build(t) ==
    /\ fault = "none"
    /\ pc[t] = "L46"
    /\ diag' = [diag EXCEPT ![t] = DecodedDiagnostic(decoded_loc[t], message[t])]
    /\ pc' = [pc EXCEPT ![t] = "L48"]
    /\ UNCHANGED <<ctx, message, decoded_loc, host, callId, ndecode, calls,
                   sink, fault>>
    /\ UNCHANGED valueVars

\* auto* host = exec_ctx.host();
EmitError_Host(t) ==
    /\ fault = "none"
    /\ pc[t] = "L48"
    /\ host' = [host EXCEPT ![t] = ctx[t].host]
    /\ pc' = [pc EXCEPT ![t] = "L49"]
    /\ UNCHANGED <<ctx, message, decoded_loc, diag, callId, ndecode, calls,
                   sink, fault>>
    /\ UNCHANGED valueVars

\* Variant: the handler is invoked a second time (a retry).
EmitError_Deliver_Twice(t) ==
    /\ fault = "none"
    /\ pc[t] = "L49"
    /\ host[t] # NullHost
    /\ sink' = HostContext_EmitError(
                   HostContext_EmitError(sink, host[t], callId[t], diag[t]),
                   host[t], callId[t], diag[t])
    /\ pc' = [pc EXCEPT ![t] = "L51"]
    /\ UNCHANGED <<ctx, message, decoded_loc, diag, host, callId, ndecode,
                   calls, fault>>
    /\ UNCHANGED valueVars

\* Variant: the delivery is left for later; the call goes on without it.
EmitError_Deliver_Deferred(t) ==
    /\ fault = "none"
    /\ pc[t] = "L49"
    /\ host[t] # NullHost
    /\ pc' = [pc EXCEPT ![t] = "L51"]
    /\ UNCHANGED <<ctx, message, decoded_loc, diag, host, callId, ndecode,
                   calls, sink, fault>>
    /\ UNCHANGED valueVars

\* host->EmitError(diag);  with host pointing at a HostContext
EmitError_Deliver(t) ==
    /\ fault = "none"
    /\ pc[t] = "L49"
    /\ host[t] # NullHost
    /\ sink' = HostContext_EmitError(sink, host[t], callId[t], diag[t])
    /\ pc' = [pc EXCEPT ![t] = "L51"]
    /\ UNCHANGED <<ctx, message, decoded_loc, diag, host, callId, ndecode,
                   calls, fault>>
    /\ UNCHANGED valueVars

\* host->EmitError(diag);  with host == nullptr: the pointer is dereferenced
\* unchecked, which is undefined behaviour.
EmitError_DerefNull(t) ==
    /\ fault = "none"
    /\ pc[t] = "L49"
    /\ host[t] = NullHost
    /\ fault' \in UBOutcomes
    /\ UNCHANGED <<ctx, pc, message, decoded_loc, diag, host, callId, ndecode,
                   calls, sink>>
    /\ UNCHANGED valueVars

\* Variant: the diagnostic was moved into the handler; what is returned is
\* the moved-from object, its message gone.
EmitError_Return_MovedFrom(t) ==
    /\ fault = "none"
    /\ pc[t] = "L51"
    /\ calls' = [calls EXCEPT ![callId[t]] =
                    [@ EXCEPT !.returned = TRUE,
                              !.result = DecodedDiagnostic(diag[t].location, ""),
                              !.decodes = ndecode[t]]]
    /\ pc' = [pc EXCEPT ![t] = "idle"]
    /\ callId' = [callId EXCEPT ![t] = 0]
    /\ message' = [message EXCEPT ![t] = ""]
    /\ decoded_loc' = [decoded_loc EXCEPT ![t] = None]
    /\ diag' = [diag EXCEPT ![t] = NoDiag]
    /\ host' = [host EXCEPT ![t] = NullHost]
    /\ ndecode' = [ndecode EXCEPT ![t] = 0]
    /\ UNCHANGED <<ctx, sink, fault>>
    /\ UNCHANGED valueVars

\* return diag;  the frame's locals die with the call.
EmitError_Return(t) ==
    /\ fault = "none"
    /\ pc[t] = "L51"
    /\ calls' = [calls EXCEPT ![callId[t]] =
                    [@ EXCEPT !.returned = TRUE, !.result = diag[t],
                              !.decodes = ndecode[t]]]
    /\ pc' = [pc EXCEPT ![t] = "idle"]
    /\ callId' = [callId EXCEPT ![t] = 0]
    /\ message' = [message EXCEPT ![t] = ""]
    /\ decoded_loc' = [decoded_loc EXCEPT ![t] = None]
    /\ diag' = [diag EXCEPT ![t] = NoDiag]
    /\ host' = [host EXCEPT ![t] = NullHost]
    /\ ndecode' = [ndecode EXCEPT ![t] = 0]
    /\ UNCHANGED <<ctx, sink, fault>>
    /\ UNCHANGED valueVars

\* The statements of a running call of thread t.
Step(t) ==
    \/ EmitError_Decode(t)
    \/ EmitError_Build(t)
    \/ EmitError_Host(t)
    \/ EmitError_Deliver(t)
    \/ EmitError_Return(t)

Next ==
    \E t \in Threads :
        \/ \E m \in Messages : EmitError_Call(t, m)
        \/ EmitError_Decode(t)
        \/ EmitError_Build(t)
        \/ EmitError_Host(t)
        \/ EmitError_Deliver(t)
        \/ EmitError_Return(t)

NextUnset ==
    \E t \in Threads :
        \/ \E m \in Messages : EmitError_Call(t, m)
        \/ EmitError_Decode(t)
        \/ EmitError_Build(t)
        \/ EmitError_Host(t)
        \/ EmitError_Deliver(t)
        \/ EmitError_DerefNull(t)
        \/ EmitError_Return(t)

-----------------------------------------------------------------------------
(* DecodedDiagnostic values in a caller's hands *)

Filenames == {"a.cc", "f.cc"}

ValueMessages == {"bad thing", "oops", ""}

DecodedLocations ==
    {[filename |-> f, line |-> l, column |-> c] :
        f \in Filenames, l \in 0..MaxLine, c \in 0..MaxColumn}

OptionalLocations == {None} \cup {Some(l) : l \in DecodedLocations}

DecodedDiagnostic_FromError_DefaultLocation(e) ==
    [location |-> Some([filename |-> "", line |-> 0, column |-> 0]),
     message |-> StrCat(e)]

\* DecodedDiagnostic::DecodedDiagnostic(const Error& error)
\*     : message(StrCat(error)) {}      location is left default: empty.
DecodedDiagnostic_FromError(e) ==
    [location |-> None, message |-> StrCat(e)]

\* A caller constructs a diagnostic from an error value.
FromError(e) ==
    /\ value' = DecodedDiagnostic_FromError(e)
    /\ origin' = "error"
    /\ err' = e
    /\ os' = ""
    /\ UNCHANGED emitVars

\* A caller constructs a diagnostic from a location and a message it has.
FromPair(loc, m) ==
    /\ value' = DecodedDiagnostic(loc, m)
    /\ origin' = "pair"
    /\ err' = [payload |-> "null", msg |-> ""]
    /\ os' = ""
    /\ UNCHANGED emitVars

\* A caller assigns the location member of a diagnostic it holds.
SetLocation(loc) ==
    /\ origin # "none"
    /\ value.location # loc
    /\ value' = [value EXCEPT !.location = loc]
    /\ origin' = "set"
    /\ os' = ""
    /\ UNCHANGED err
    /\ UNCHANGED emitVars

\* A caller streams the diagnostic it holds to a fresh stream.
Stream ==
    /\ origin # "none"
    /\ os = ""
    /\ os' = StreamOut("", value)
    /\ UNCHANGED <<value, origin, err>>
    /\ UNCHANGED emitVars

NextValue ==
    \/ \E e \in ErrorValues : FromError(e)
    \/ \E loc \in OptionalLocations, m \in ValueMessages : FromPair(loc, m)
    \/ \E loc \in OptionalLocations : SetLocation(loc)
    \/ Stream

\* No thread emits; a caller only handles diagnostic values.
InitCaller ==
    /\ ctx = [t \in Threads |-> [location |-> NoToken, host |-> "h1"]]
    /\ InitEmit
    /\ InitValue

\* Several threads emit on one shared execution context.
InitFair ==
    /\ \E c \in Contexts : ctx = [t \in Threads |-> c]
    /\ InitEmit
    /\ InitValue

\* The runtime's contexts: every context reaches a host.
Spec == Init /\ [][Next]_vars

\* Threads are scheduled: a call that can take its next statement takes it.
FairSpec == InitFair /\ [][Next]_vars /\ \A t \in Threads : WF_vars(Step(t))

\* As Spec, with contexts whose host is unset among the inputs.
SpecUnset == InitUnset /\ [][NextUnset]_vars

\* The value operations alone: construction, assignment and rendering.
SpecValue == InitCaller /\ [][NextValue]_vars

-----------------------------------------------------------------------------
(* Properties *)

CallIds == 1..Len(calls)

\* The context a call was made on.
CallCtx(id) == ctx[calls[id].thread]

\* The places in the sinks that hold a delivery made by call id.
DeliveriesOf(id) ==
    UNION {{<<h, i>> : i \in {j \in DOMAIN sink[h] : sink[h][j].call = id}} :
              h \in Hosts}

\* Call id has executed line 49.
PastDelivery(id) ==
    \/ calls[id].returned
    \/ (callId[calls[id].thread] = id /\ pc[calls[id].thread] = "L51")

Returned == {id \in CallIds : calls[id].returned}

IsPrefix(a, b) == Len(a) <= Len(b) /\ SubSeq(b, 1, Len(a)) = a

\* C1: every completed EmitError call has delivered exactly one diagnostic,
\* to the sink of its own context's host; each sink holds exactly as many
\* diagnostics as calls on it have executed the delivery, so after k completed
\* calls and none in flight the sinks hold exactly k.
C1_ExactlyOneDelivery ==
    /\ \A id \in Returned :
          /\ Cardinality(DeliveriesOf(id)) = 1
          /\ \A d \in DeliveriesOf(id) : d[1] = CallCtx(id).host
    /\ \A h \in Hosts :
          Len(sink[h]) =
              Cardinality({id \in CallIds :
                              PastDelivery(id) /\ CallCtx(id).host = h})

\* Two calls have completed on the same host and its sink holds two.
C1_Witness ==
    \E h \in Hosts :
        /\ Len(sink[h]) = 2
        /\ Cardinality({id \in Returned : CallCtx(id).host = h}) = 2
        /\ \A t \in Threads : pc[t] = "idle"

\* The locals of the EmitError frame of thread t.
Frame(t) == <<message[t], decoded_loc[t], diag[t], host[t], ndecode[t]>>

\* C2: with the threads' calls interleaved in every way, each call that has
\* executed its delivery has exactly one entry in the sinks and any other call
\* has none, each entry carries its own call's message, and none is
\* overwritten or removed afterwards; a step of EmitError writes the frame of
\* one thread only and never the execution contexts.
C2_ConcurrentDeliveries ==
    /\ [](\A id \in CallIds :
             /\ Cardinality(DeliveriesOf(id)) = IF PastDelivery(id) THEN 1 ELSE 0
             /\ \A d \in DeliveriesOf(id) :
                   sink[d[1]][d[2]].diag.message = calls[id].message)
    /\ [][/\ ctx' = ctx
          /\ \A h \in Hosts : IsPrefix(sink[h], sink'[h])
          /\ Cardinality({t \in Threads : Frame(t)' # Frame(t)}) <= 1]_vars

\* Every thread has delivered and none has returned yet: the calls overlap.
C2_Witness ==
    /\ \A t \in Threads : pc[t] = "L51"
    /\ \E t, u \in Threads : t # u /\ message[t] # message[u]

\* C3: a call on a context whose host is unset does not fail.
C3_UnsetSinkTolerated ==
    \A t \in Threads : ctx[t].host = NullHost => fault = "none"

\* What each location token of the contexts stands for.
ExpectedLocation(tok) ==
    CASE tok = "tokF" -> Some([filename |-> "f.cc", line |-> 3, column |-> 1])
      [] OTHER -> None

\* C4: a returned diagnostic carries the message passed in and the decoded
\* location of the context: none when the context has no location or it does
\* not decode, the resolved triple otherwise; on ("f.cc", 3, 1) the message
\* "oops" renders as "f.cc:3:1: oops".
C4_ReturnedDiagnostic ==
    \A id \in Returned :
        LET r == calls[id].result
            tok == CallCtx(id).location
        IN  /\ r.message = calls[id].message
            /\ r.location = ExpectedLocation(tok)
            /\ (tok \in {NoToken, "tokBad"} => ~r.location.has)
            /\ (tok = "tokF" /\ calls[id].message = "oops"
                    => Format(r) = "f.cc:3:1: oops")

C4_Witness ==
    \E id, id2 \in Returned :
        /\ CallCtx(id).location = "tokF"
        /\ calls[id].message = "oops"
        /\ Format(calls[id].result) = "f.cc:3:1: oops"
        /\ CallCtx(id2).location = NoToken
        /\ Format(calls[id2].result) = "UnknownLocation: oops"

\* C5: what a call delivered is what it holds once delivered and what it
\* returns: location and message are equal.
C5_ReturnedIsDelivered ==
    \A id \in CallIds :
        PastDelivery(id) =>
            \A d \in DeliveriesOf(id) :
                LET sent == sink[d[1]][d[2]].diag
                    kept == IF calls[id].returned THEN calls[id].result
                            ELSE diag[calls[id].thread]
                IN  /\ sent.location = kept.location
                    /\ sent.message = kept.message

C5_Witness ==
    \E id \in Returned :
        /\ calls[id].message = "oops"
        /\ calls[id].result.location.has
        /\ \E d \in DeliveriesOf(id) : sink[d[1]][d[2]].diag = calls[id].result

\* The rendering the format contract prescribes.
ExpectedText(d) ==
    IF d.location.has
    THEN d.location.value.filename \o ":" \o ToString(d.location.value.line)
            \o ":" \o ToString(d.location.value.column) \o ": " \o d.message
    ELSE "UnknownLocation: " \o d.message

\* C6: a streamed diagnostic reads "<filename>:<line>:<column>: <message>"
\* when it has a location and "UnknownLocation: <message>" when it has none,
\* whatever the message; ("a.cc", 10, 5) with "bad thing" reads
\* "a.cc:10:5: bad thing".
C6_Format ==
    os # "" =>
        /\ os = ExpectedText(value)
        /\ (value = DecodedDiagnostic(
                        Some([filename |-> "a.cc", line |-> 10, column |-> 5]),
                        "bad thing")
                => os = "a.cc:10:5: bad thing")
        /\ (value = DecodedDiagnostic(None, "bad thing")
                => os = "UnknownLocation: bad thing")
        /\ (value = DecodedDiagnostic(None, "") => os = "UnknownLocation: ")

C6_Witness ==
    /\ value.location.has
    /\ value.location.value.line = 10
    /\ os = "a.cc:10:5: bad thing"

\* C7: decoding never fails: once line 45 has run the call holds an optional
\* location, empty when the context has no token or the token does not
\* resolve, the process has not died, and the call can take its next
\* statement, for every token a context can carry.
C7_DecodeNeverFails ==
    /\ fault = "none"
    /\ \A t \in Threads :
          /\ (pc[t] \in {"L46", "L48", "L49", "L51"} =>
                /\ decoded_loc[t] \in {None} \cup
                        {Some(LocationTable[k]) : k \in DOMAIN LocationTable}
                /\ (ctx[t].location \in {NoToken, "tokBad"}
                        => decoded_loc[t] = None))
          /\ (pc[t] # "idle" => ENABLED Step(t))

C7_Witness ==
    \E id, id2 \in Returned :
        /\ CallCtx(id).location = "tokBad"
        /\ CallCtx(id2).location = NoToken
        /\ ~calls[id].result.location.has
        /\ ~calls[id2].result.location.has

C9_FromError ==
    /\ [](origin = "error" =>
             /\ value.message = ErrorText(err)
             /\ value.location = None)
    /\ [][origin' = "error" => UNCHANGED <<sink, ndecode, decoded_loc, calls>>]_vars

C9_Witness ==
    /\ origin = "error"
    /\ err = [payload |-> "StringError", msg |-> "bad thing"]
    /\ value = [location |-> None, message |-> "bad thing"]
    /\ os = "UnknownLocation: bad thing"

\* C10: a call decodes the location once, then builds the diagnostic, then
\* delivers it, then returns: a call that has returned has made exactly one
\* decode and its delivery is in the sink; a running call can always take its
\* next statement, whatever the other calls are doing, and returns.
C10_SynchronousOrdered ==
    /\ [](\A t \in Threads :
            /\ (pc[t] = "L45" =>
                  ndecode[t] = 0 /\ diag[t] = NoDiag /\ DeliveriesOf(callId[t]) = {})
            /\ (pc[t] = "L46" =>
                  ndecode[t] = 1 /\ diag[t] = NoDiag /\ DeliveriesOf(callId[t]) = {})
            /\ (pc[t] \in {"L48", "L49"} =>
                  /\ ndecode[t] = 1
                  /\ diag[t] = DecodedDiagnostic(decoded_loc[t], message[t])
                  /\ DeliveriesOf(callId[t]) = {})
            /\ (pc[t] = "L51" =>
                  ndecode[t] = 1 /\ Cardinality(DeliveriesOf(callId[t])) = 1)
            /\ (pc[t] # "idle" => ENABLED Step(t)))
    /\ [](\A id \in Returned :
            calls[id].decodes = 1 /\ Cardinality(DeliveriesOf(id)) = 1)
    /\ \A t \in Threads : (pc[t] # "idle") ~> (pc[t] = "idle")

\* One call has returned, delivered, while another has only just begun.
C10_Witness ==
    \E id \in Returned, t \in Threads :
        /\ pc[t] = "L45"
        /\ Cardinality(DeliveriesOf(id)) = 1
        /\ calls[id].decodes = 1

====
